---- MODULE Spec2Model ----
(***************************************************************************)
(* A model of the speed test service of main.py: the download generator    *)
(* and its streaming consumer, the upload receiver and the bundled client  *)
(* page that reads its response, and the network details handler (client   *)
(* address resolution, private address classification, geolocation).       *)
(***************************************************************************)
EXTENDS Integers, Sequences, FiniteSets, TLC

(***************************************************************************)
(* Bounds of the model.                                                    *)
(***************************************************************************)
\* largest size_mb a download request asks for
MaxSizeMb == 2
\* smallest size_mb a download request asks for is -MaxNegSizeMb
MaxNegSizeMb == 1

\* the download requests in flight at the same time
Requests == {"r1", "r2"}
SizeMbs == (0 - MaxNegSizeMb)..MaxSizeMb

Min(a, b) == IF a <= b THEN a ELSE b

RECURSIVE SumSeq(_)
SumSeq(s) == IF s = <<>> THEN 0 ELSE Head(s) + SumSeq(Tail(s))

VARIABLES
    \* ---- GET /api/speedtest/download, one generator per request ----
    dlPc,            \* where the request's generator is
    size_mb,         \* the request's query parameter
    content_length,  \* the Content-Length header of the response
    bytes_sent,      \* the generator's local bytes_sent
    chunk,           \* length of the chunk the generator holds
    body,            \* lengths of the chunks handed to the consumer so far
    disconnected,    \* the client went away: the consumer pulls no more
    \* ---- POST /api/speedtest/upload and the page that calls it ----
    upPc,            \* where the upload request is
    upClient,        \* who posted it: the bundled page or another client
    upBytes,         \* length of the uploaded file (-1: no file part)
    upRemaining,     \* bytes of the file not read yet
    upAsked,         \* the largest size a read asked for
    upEmptyReads,    \* reads that returned no bytes
    size,            \* test_upload's local byte counter
    upStatus,        \* HTTP status of the response
    upResult,        \* JSON body of the response
    pageUpload,      \* what the page shows in its upload field
    \* ---- GET /api/speedtest/network and /api/speedtest/test ----
    netPc,           \* idle, received, geolocating (in the ip-api.com
                     \* call), responded
    route,           \* the route that was requested
    peer,            \* request.client.host, NoneS when request.client is None
    xff,             \* the request's X-Forwarded-For header
    lookups,         \* what the lookups of the server's name did
    geo,             \* how the ip-api.com call ended
    client_ip,       \* get_network_details' local client_ip
    public_ip,       \* get_network_details' local public_ip
    built,           \* network_info as built before the geolocation
    calls,           \* HTTP calls get_network_details made
    network,         \* what get_network_details returned
    netStatus,       \* HTTP status of the response
    netBody          \* JSON body of the response

dlVars == <<dlPc, size_mb, content_length, bytes_sent, chunk, body, disconnected>>

upVars == <<upPc, upClient, upBytes, upRemaining, upAsked, upEmptyReads, size,
            upStatus, upResult, pageUpload>>

netVars == <<netPc, route, peer, xff, lookups, geo, client_ip, public_ip, built, calls, network,
             netStatus, netBody>>

vars == <<dlVars, upVars, netVars>>

(***************************************************************************)
(* test_download                                                           *)
(***************************************************************************)
chunk_size == 256 * 1024

total_bytes(r) == size_mb[r] * 1024 * 1024

InitDownload ==
    /\ dlPc = [r \in Requests |-> "idle"]
    /\ size_mb = [r \in Requests |-> 0]
    /\ content_length = [r \in Requests |-> 0]
    /\ bytes_sent = [r \in Requests |-> 0]
    /\ chunk = [r \in Requests |-> 0]
    /\ body = [r \in Requests |-> <<>>]
    /\ disconnected = [r \in Requests |-> FALSE]

\* The handler runs: the generator object is created (its body has not run
\* yet) and the response headers are fixed.
test_download(r, mb) ==
    /\ dlPc[r] = "idle"
    /\ dlPc' = [dlPc EXCEPT ![r] = "suspended"]
    /\ size_mb' = [size_mb EXCEPT ![r] = mb]
    /\ content_length' = [content_length EXCEPT ![r] = mb * 1024 * 1024]
    /\ UNCHANGED <<bytes_sent, chunk, body, disconnected>>
    /\ UNCHANGED <<upVars, netVars>>

\* The consumer of the streaming response asks the generator for its next
\* chunk.
Pull(r) ==
    /\ dlPc[r] = "suspended"
    /\ ~disconnected[r]
    /\ dlPc' = [dlPc EXCEPT ![r] = "running"]
    /\ UNCHANGED <<size_mb, content_length, bytes_sent, chunk, body, disconnected>>
    /\ UNCHANGED <<upVars, netVars>>

\* A generator that tests bytes_sent <= total_bytes.
generateOffByOne(r) ==
    /\ dlPc[r] = "running"
    /\ IF bytes_sent[r] <= total_bytes(r)
       THEN LET n == Min(chunk_size, total_bytes(r) - bytes_sent[r])
            IN /\ chunk' = [chunk EXCEPT ![r] = n]
               /\ bytes_sent' = [bytes_sent EXCEPT ![r] = @ + n]
               /\ dlPc' = [dlPc EXCEPT ![r] = "yielding"]
       ELSE /\ dlPc' = [dlPc EXCEPT ![r] = "done"]
            /\ UNCHANGED <<chunk, bytes_sent>>
    /\ UNCHANGED <<size_mb, content_length, body, disconnected>>
    /\ UNCHANGED <<upVars, netVars>>

\* A generator that runs ahead of its consumer.
generateEager(r) ==
    /\ dlPc[r] \in {"running", "suspended"}
    /\ IF bytes_sent[r] < total_bytes(r)
       THEN LET n == Min(chunk_size, total_bytes(r) - bytes_sent[r])
            IN /\ chunk' = [chunk EXCEPT ![r] = n]
               /\ bytes_sent' = [bytes_sent EXCEPT ![r] = @ + n]
               /\ dlPc' = [dlPc EXCEPT ![r] =
                              IF dlPc[r] = "running" THEN "yielding" ELSE @]
       ELSE /\ dlPc' = [dlPc EXCEPT ![r] = "done"]
            /\ UNCHANGED <<chunk, bytes_sent>>
    /\ UNCHANGED <<size_mb, content_length, body, disconnected>>
    /\ UNCHANGED <<upVars, netVars>>

\* The generator body runs from where it was suspended to its next yield, or
\* to its end: the loop test, os.urandom, the increment of bytes_sent.
generate(r) ==
    /\ dlPc[r] = "running"
    /\ IF bytes_sent[r] < total_bytes(r)
       THEN LET n == Min(chunk_size, total_bytes(r) - bytes_sent[r])
            IN /\ chunk' = [chunk EXCEPT ![r] = n]
               /\ bytes_sent' = [bytes_sent EXCEPT ![r] = @ + n]
               /\ dlPc' = [dlPc EXCEPT ![r] = "yielding"]
       ELSE /\ dlPc' = [dlPc EXCEPT ![r] = "done"]
            /\ UNCHANGED <<chunk, bytes_sent>>
    /\ UNCHANGED <<size_mb, content_length, body, disconnected>>
    /\ UNCHANGED <<upVars, netVars>>

\* yield chunk: the chunk reaches the consumer, which sends it; when the
\* client is gone the chunk is dropped and the generator is never resumed.
Yield(r) ==
    /\ dlPc[r] = "yielding"
    /\ IF disconnected[r]
       THEN /\ dlPc' = [dlPc EXCEPT ![r] = "closed"]
            /\ UNCHANGED body
       ELSE /\ dlPc' = [dlPc EXCEPT ![r] = "suspended"]
            /\ body' = [body EXCEPT ![r] = Append(@, chunk[r])]
    /\ chunk' = [chunk EXCEPT ![r] = 0]
    /\ UNCHANGED <<size_mb, content_length, bytes_sent, disconnected>>
    /\ UNCHANGED <<upVars, netVars>>

\* The client disconnects in the middle of the stream.
Disconnect(r) ==
    /\ dlPc[r] \in {"suspended", "running", "yielding"}
    /\ ~disconnected[r]
    /\ disconnected' = [disconnected EXCEPT ![r] = TRUE]
    /\ dlPc' = [dlPc EXCEPT ![r] = IF @ = "suspended" THEN "closed" ELSE @]
    /\ UNCHANGED <<size_mb, content_length, bytes_sent, chunk, body>>
    /\ UNCHANGED <<upVars, netVars>>

NextDownload ==
    \E r \in Requests :
        \/ \E mb \in SizeMbs : test_download(r, mb)
        \/ Pull(r)
        \/ generate(r)
        \/ Yield(r)
        \/ Disconnect(r)

(***************************************************************************)
(* test_upload and the upload step of the page's runTest                   *)
(***************************************************************************)
\* largest number of whole 256 KiB chunks in an uploaded file
MaxUploadChunks == 20

\* bytes an uploaded file may hold beyond its whole chunks
ExtraBytes == {0, 1, 100000}

\* lengths a read may return when it returns less than it was asked for
ShortReads == {65536, 100000}

Missing == 0 - 1

UploadSizes ==
    {k * chunk_size + e : k \in 0..MaxUploadChunks, e \in ExtraBytes}

\* new Uint8Array(5 * 1024 * 1024)
PageUploadBytes == 5 * 1024 * 1024

\* round(x, 2) of the exact quotient num / den, in hundredths: to nearest,
\* a tie to the even hundredth.
Round2(num, den) ==
    LET q == (num * 100) \div den
        rem == (num * 100) % den
    IN  IF 2 * rem > den \/ (2 * rem = den /\ q % 2 = 1) THEN q + 1 ELSE q

\* the JSON object {}
EmptyObject == [x \in {} |-> 0]

InitUpload ==
    /\ upPc = "idle"
    /\ upClient = "api"
    /\ upBytes = 0
    /\ upRemaining = 0
    /\ upAsked = 0
    /\ upEmptyReads = 0
    /\ size = 0
    /\ upStatus = 0
    /\ upResult = EmptyObject
    /\ pageUpload = "-- Mbps"

\* A client posts to /api/speedtest/upload. The parameter file: UploadFile
\* has no default: a request without the file part is answered 422 by the
\* framework and test_upload is not called. Otherwise test_upload starts.
PostUpload(client, n) ==
    /\ upPc \in {"idle", "responded"}
    /\ upClient' = client
    /\ upBytes' = n
    /\ upAsked' = 0
    /\ upEmptyReads' = 0
    /\ size' = 0
    /\ upResult' = EmptyObject
    /\ IF n = Missing
       THEN /\ upPc' = "responded"
            /\ upStatus' = 422
            /\ upRemaining' = 0
       ELSE /\ upPc' = "reading"
            /\ upStatus' = 0
            /\ upRemaining' = n
    /\ UNCHANGED pageUpload
    /\ UNCHANGED <<dlVars, netVars>>

\* The lengths file.read(n) may return with rem bytes left in the file.
ReadLengths(n, rem) ==
    {Min(n, rem)} \cup {k \in ShortReads : k < Min(n, rem)}

UploadResult(sz) ==
    [f \in {"size_bytes", "size_mb", "server_timestamp", "note"} |->
        CASE f = "size_bytes" -> sz
          [] f = "size_mb" -> Round2(sz, 1024 * 1024)
          [] f = "server_timestamp" -> 0
          [] f = "note" -> 0]

\* One turn of the loop: await file.read(chunk_size); an empty chunk ends
\* the loop and the handler returns its result.
test_upload ==
    /\ upPc = "reading"
    /\ upAsked' = IF chunk_size > upAsked THEN chunk_size ELSE upAsked
    /\ \E k \in ReadLengths(chunk_size, upRemaining) :
        /\ upRemaining' = upRemaining - k
        /\ IF k # 0
           THEN /\ size' = size + k
                /\ UNCHANGED <<upPc, upEmptyReads, upStatus, upResult>>
           ELSE /\ upEmptyReads' = upEmptyReads + 1
                /\ upPc' = "responded"
                /\ upStatus' = 200
                /\ upResult' = UploadResult(size)
                /\ UNCHANGED size
    /\ UNCHANGED <<upClient, upBytes, pageUpload>>
    /\ UNCHANGED <<dlVars, netVars>>

\* The fields of upResult the page reads.
PageUploadReads == {"speed_mbps"}

\* upResult.speed_mbps + ' Mbps': a field the object lacks reads undefined.
runTestUpload ==
    /\ upPc = "responded"
    /\ upClient = "page"
    /\ upStatus = 200
    /\ pageUpload' = IF "speed_mbps" \in DOMAIN upResult
                     THEN "speed Mbps"
                     ELSE "undefined Mbps"
    /\ upPc' = "idle"
    /\ UNCHANGED <<upClient, upBytes, upRemaining, upAsked, upEmptyReads, size,
                   upStatus, upResult>>
    /\ UNCHANGED <<dlVars, netVars>>

NextUpload ==
    \/ \E n \in UploadSizes \cup {Missing} : PostUpload("api", n)
    \/ PostUpload("page", PageUploadBytes)
    \/ test_upload
    \/ runTestUpload

(***************************************************************************)
(* Strings. A Python str is a sequence of one-character strings.           *)
(***************************************************************************)
\* request.client is None, a header that is absent, public_ip = None
NoneS == <<"<None>">>

\* the first index of character c in s at or after i, 0 when there is none
RECURSIVE FindFrom(_, _, _)
FindFrom(s, c, i) ==
    IF i > Len(s) THEN 0
    ELSE IF s[i] = c THEN i
    ELSE FindFrom(s, c, i + 1)

\* s.find(c) + 1
Find(s, c) == FindFrom(s, c, 1)

\* s.split(c)
RECURSIVE Split(_, _)
Split(s, c) ==
    LET i == Find(s, c)
    IN  IF i = 0
        THEN <<s>>
        ELSE <<SubSeq(s, 1, i - 1)>> \o Split(SubSeq(s, i + 1, Len(s)), c)

\* the characters str.strip() removes, among those of the model
Whitespace == {" ", "\t", "\n", "\r", "\f"}

RECURSIVE LStrip(_)
LStrip(s) ==
    IF s # <<>> /\ Head(s) \in Whitespace THEN LStrip(Tail(s)) ELSE s

RECURSIVE RStrip(_)
RStrip(s) ==
    IF s # <<>> /\ s[Len(s)] \in Whitespace
    THEN RStrip(SubSeq(s, 1, Len(s) - 1))
    ELSE s

\* s.strip()
Strip(s) == RStrip(LStrip(s))

(***************************************************************************)
(* ipaddress.ip_address(ip).is_private, as the standard library computes   *)
(* it for a str.                                                           *)
(***************************************************************************)
Digits == {"0", "1", "2", "3", "4", "5", "6", "7", "8", "9"}

HexDigits == Digits \cup {"a", "b", "c", "d", "e", "f",
                          "A", "B", "C", "D", "E", "F"}

HexValue(c) ==
    CASE c = "0" -> 0 [] c = "1" -> 1 [] c = "2" -> 2 [] c = "3" -> 3
      [] c = "4" -> 4 [] c = "5" -> 5 [] c = "6" -> 6 [] c = "7" -> 7
      [] c = "8" -> 8 [] c = "9" -> 9
      [] c \in {"a", "A"} -> 10 [] c \in {"b", "B"} -> 11
      [] c \in {"c", "C"} -> 12 [] c \in {"d", "D"} -> 13
      [] c \in {"e", "E"} -> 14 [] c \in {"f", "F"} -> 15

\* int(s, base) of a non-empty string of digits of that base
RECURSIVE IntOf(_, _)
IntOf(s, base) ==
    IF s = <<>> THEN 0
    ELSE IntOf(SubSeq(s, 1, Len(s) - 1), base) * base + HexValue(s[Len(s)])

Invalid == 0 - 1

\* the octet's value when it is at most 255
OctetInRange(v) == IF v <= 255 THEN v ELSE Invalid

\* _parse_octet: Invalid where the library raises
ParseOctet(o) ==
    IF /\ o # <<>>
       /\ \A i \in 1..Len(o) : o[i] \in Digits
       /\ Len(o) <= 3
       /\ (Len(o) = 1 \/ o[1] # "0")
    THEN OctetInRange(IntOf(o, 10))
    ELSE Invalid

\* _parse_hextet: Invalid where the library raises
ParseHextet(h) ==
    IF /\ h # <<>>
       /\ \A i \in 1..Len(h) : h[i] \in HexDigits
       /\ Len(h) <= 4
    THEN IntOf(h, 16)
    ELSE Invalid

ValueError == [version |-> 0, units |-> <<>>]

\* the address of four parsed octets, ValueError unless the string has no
\* "/" and exactly four octets, all valid
IPv4FromOctets(s, octets) ==
    IF /\ Find(s, "/") = 0
       /\ Len(octets) = 4
       /\ \A i \in 1..4 : octets[i] # Invalid
    THEN [version |-> 4, units |-> octets]
    ELSE ValueError

ParseOctets(parts) == [i \in 1..Len(parts) |-> ParseOctet(parts[i])]

\* IPv4Address(s): four octets, or ValueError
IPv4Address(s) == IPv4FromOctets(s, ParseOctets(Split(s, ".")))

\* The parts of an IPv6 literal after the split at ":", a trailing dotted
\* quad replaced by its two hextets: each part its value, Empty for an
\* empty part, Invalid for a part that does not parse.
Empty == 0 - 2

PartValue(p) == IF p = <<>> THEN Empty ELSE ParseHextet(p)

PartValues(parts) == [i \in 1..Len(parts) |-> PartValue(parts[i])]

\* the parts before a trailing dotted quad, then the quad's two hextets
WithDottedQuad(front, v4) ==
    IF v4 = ValueError
    THEN <<Invalid>>
    ELSE front \o <<v4.units[1] * 256 + v4.units[2],
                    v4.units[3] * 256 + v4.units[4]>>

HextetParts(parts) ==
    IF Find(parts[Len(parts)], ".") # 0
    THEN WithDottedQuad(PartValues(SubSeq(parts, 1, Len(parts) - 1)),
                        IPv4Address(parts[Len(parts)]))
    ELSE PartValues(parts)

\* the eight hextets of the part values p, with the one "::" expanded
IPv6FromParts(p) ==
    LET n == Len(p)
        skips == {i \in 2..(n - 1) : p[i] = Empty}
        skip == CHOOSE i \in skips : TRUE
        hi == IF p[1] = Empty THEN skip - 2 ELSE skip - 1
        lo == IF p[n] = Empty THEN n - skip - 1 ELSE n - skip
        zeros == 8 - (hi + lo)
    IN  IF n > 9 \/ Cardinality(skips) > 1 \/ \E i \in 1..n : p[i] = Invalid
        THEN ValueError
        ELSE IF skips # {}
        THEN IF \/ (p[1] = Empty /\ hi # 0)
                \/ (p[n] = Empty /\ lo # 0)
                \/ zeros < 1
             THEN ValueError
             ELSE [version |-> 6,
                   units |-> SubSeq(p, 1, hi)
                             \o [i \in 1..zeros |-> 0]
                             \o SubSeq(p, n - lo + 1, n)]
        ELSE IF n # 8 \/ p[1] = Empty \/ p[n] = Empty
             THEN ValueError
             ELSE [version |-> 6, units |-> p]

IPv6FromRaw(raw) ==
    IF Len(raw) < 3 THEN ValueError ELSE IPv6FromParts(HextetParts(raw))

\* _ip_int_from_string of IPv6: eight hextets, or ValueError
IPv6Hextets(s) == IF s = <<>> THEN ValueError ELSE IPv6FromRaw(Split(s, ":"))

\* the address before the scope id that starts at index i (0: no scope id)
IPv6Scoped(s, i) ==
    IF i = 0 THEN IPv6Hextets(s)
    ELSE IF i = Len(s) \/ FindFrom(s, "%", i + 1) # 0 THEN ValueError
    ELSE IPv6Hextets(SubSeq(s, 1, i - 1))

\* IPv6Address(s): the scope id after "%" is split off first
IPv6Address(s) ==
    IF Find(s, "/") # 0 THEN ValueError ELSE IPv6Scoped(s, Find(s, "%"))

\* the IPv4 address when the string is one, else what IPv6Address makes of it
IPv4OrIPv6(v4, s) == IF v4 # ValueError THEN v4 ELSE IPv6Address(s)

\* ipaddress.ip_address(s)
ip_address(s) == IPv4OrIPv6(IPv4Address(s), s)

RECURSIVE Pow2(_)
Pow2(n) == IF n = 0 THEN 1 ELSE 2 * Pow2(n - 1)

\* address in network, both sequences of units of w bits
InNetwork(units, net, plen, w) ==
    \A i \in 1..Len(units) :
        LET k == plen - (i - 1) * w
        IN  \/ k <= 0
            \/ k >= w /\ units[i] = net[i]
            \/ k > 0 /\ k < w /\
                 units[i] \div Pow2(w - k) = net[i] \div Pow2(w - k)

\* _IPv4Constants._private_networks
IPv4PrivateNetworks ==
    { <<<<0, 0, 0, 0>>, 8>>, <<<<10, 0, 0, 0>>, 8>>, <<<<127, 0, 0, 0>>, 8>>,
      <<<<169, 254, 0, 0>>, 16>>, <<<<172, 16, 0, 0>>, 12>>,
      <<<<192, 0, 0, 0>>, 29>>, <<<<192, 0, 0, 170>>, 31>>,
      <<<<192, 0, 2, 0>>, 24>>, <<<<192, 168, 0, 0>>, 16>>,
      <<<<198, 18, 0, 0>>, 15>>, <<<<198, 51, 100, 0>>, 24>>,
      <<<<203, 0, 113, 0>>, 24>>, <<<<240, 0, 0, 0>>, 4>>,
      <<<<255, 255, 255, 255>>, 32>> }

\* _IPv6Constants._private_networks
IPv6PrivateNetworks ==
    { <<<<0, 0, 0, 0, 0, 0, 0, 1>>, 128>>, <<<<0, 0, 0, 0, 0, 0, 0, 0>>, 128>>,
      <<<<0, 0, 0, 0, 0, 65535, 0, 0>>, 96>>,
      <<<<256, 0, 0, 0, 0, 0, 0, 0>>, 64>>,
      <<<<8193, 0, 0, 0, 0, 0, 0, 0>>, 23>>,
      <<<<8193, 2, 0, 0, 0, 0, 0, 0>>, 48>>,
      <<<<8193, 3512, 0, 0, 0, 0, 0, 0>>, 32>>,
      <<<<8193, 16, 0, 0, 0, 0, 0, 0>>, 28>>,
      <<<<64512, 0, 0, 0, 0, 0, 0, 0>>, 7>>,
      <<<<65152, 0, 0, 0, 0, 0, 0, 0>>, 10>> }

\* IPv4Address.is_private
IPv4IsPrivate(units) ==
    \E net \in IPv4PrivateNetworks : InNetwork(units, net[1], net[2], 8)

\* IPv6Address.is_private: an IPv4-mapped address is as private as the IPv4
\* address it maps
IPv6IsPrivate(units) ==
    IF (\A i \in 1..5 : units[i] = 0) /\ units[6] = 65535
    THEN IPv4IsPrivate(<<units[7] \div 256, units[7] % 256,
                         units[8] \div 256, units[8] % 256>>)
    ELSE \E net \in IPv6PrivateNetworks : InNetwork(units, net[1], net[2], 16)

is_private(a) ==
    IF a.version = 4 THEN IPv4IsPrivate(a.units) ELSE IPv6IsPrivate(a.units)

\* a.is_private, or the value the except clause returns
PrivateOr(a, onValueError) ==
    IF a = ValueError THEN onValueError ELSE is_private(a)

\* An is_private_ip that takes an address it cannot parse for a private one.
is_private_ipFailsClosed(ip) == PrivateOr(ip_address(ip), TRUE)

\* is_private_ip: except ValueError: return False
is_private_ip(ip) == PrivateOr(ip_address(ip), FALSE)

(***************************************************************************)
(* get_network_details and the two routes that return it                   *)
(***************************************************************************)
\* addresses and other strings a peer address or a header token may be
Addr_10_0_0_1 == <<"1", "0", ".", "0", ".", "0", ".", "1">>
Addr_192_168_1_20 == <<"1", "9", "2", ".", "1", "6", "8", ".", "1", ".", "2", "0">>
Addr_127_0_0_1 == <<"1", "2", "7", ".", "0", ".", "0", ".", "1">>
Addr_8_8_8_8 == <<"8", ".", "8", ".", "8", ".", "8">>
Addr_203_0_113_5 == <<"2", "0", "3", ".", "0", ".", "1", "1", "3", ".", "5">>
Addr_100_64_0_1 == <<"1", "0", "0", ".", "6", "4", ".", "0", ".", "1">>
Addr_fe80__1 == <<"f", "e", "8", "0", ":", ":", "1">>
Addr_2001_4860__8888 == <<"2", "0", "0", "1", ":", "4", "8", "6", "0", ":", ":", "8", "8", "8", "8">>
Addr_256_1_1_1 == <<"2", "5", "6", ".", "1", ".", "1", ".", "1">>
Str_unknown == <<"u", "n", "k", "n", "o", "w", "n">>
Str_testclient == <<"t", "e", "s", "t", "c", "l", "i", "e", "n", "t">>
Str_empty == <<>>

XffTokens ==
    {Addr_192_168_1_20, Addr_8_8_8_8, Addr_203_0_113_5, Addr_100_64_0_1,
     Addr_fe80__1, Addr_2001_4860__8888, Addr_256_1_1_1, Str_unknown,
     Str_empty}

\* whitespace around the first token of the header
XffPadding == {<<>>, <<" ">>, <<"\t", " ">>}

\* what follows the first token: nothing, or a comma and later tokens
XffTails == {<<>>,
             <<",">> \o <<" ">> \o Addr_10_0_0_1 \o <<",">> \o Addr_8_8_8_8}

NoHeader == [present |-> FALSE, lead |-> <<>>, tok |-> <<>>,
             trail |-> <<>>, tail |-> <<>>]

\* the X-Forwarded-For headers a request may carry, each as the pieces its
\* value is made of
XffHeaders ==
    {NoHeader} \cup
    [present : {TRUE}, lead : XffPadding, tok : XffTokens,
     trail : XffPadding, tail : XffTails]

\* request.headers.get("x-forwarded-for")
HeaderValue(x) ==
    IF x.present THEN x.lead \o x.tok \o x.trail \o x.tail ELSE NoneS

\* request.client.host; NoneS when request.client is None
PeerHosts == {NoneS, Addr_10_0_0_1, Addr_8_8_8_8, Str_testclient}

\* what socket.gethostbyname(hostname) returns
ServerIps == {Addr_127_0_0_1, Addr_8_8_8_8}

\* JSON objects ip-api.com may answer with
GeoObjects ==
    { [status |-> "success", country |-> "United States",
       city |-> "Mountain View", isp |-> "Google LLC",
       regionName |-> "California", timezone |-> "America/Los_Angeles"],
      [status |-> "success"],
      [status |-> "fail", message |-> "reserved range"],
      [status |-> "Success", country |-> "United States",
       city |-> "Mountain View", isp |-> "Google LLC"],
      [country |-> "United States", city |-> "Mountain View",
       isp |-> "Google LLC"],
      EmptyObject }

\* outcomes of requests.get(..., timeout=2).json()
GeoOutcomes ==
    [kind : {"timeout", "connection_error", "not_json", "json_array"},
     json : {EmptyObject}]
    \cup [kind : {"json_object"}, json : GeoObjects]

\* what the lookups of the server's own name do during one request: the
\* gethostname of the try block, the gethostname of the except block,
\* gethostbyname and the address it returns
Lookups ==
    [gethostname1 : {"ok", "oserror"}, gethostname2 : {"ok", "oserror"},
     gethostbyname : {"ok", "gaierror"}, server_ip : ServerIps]

\* bool(x) of an optional str
Truthy(x) == x # NoneS /\ x # <<>>

Last(seq) == seq[Len(seq)]

\* A resolver that takes the last token of the header.
resolve_client_ipLast(host, forwarded_for) ==
    IF Truthy(forwarded_for)
    THEN Strip(Last(Split(forwarded_for, ",")))
    ELSE host

\* client_ip = request.client.host, overridden by the header's first token
resolve_client_ip(host, forwarded_for) ==
    IF Truthy(forwarded_for)
    THEN Strip(Split(forwarded_for, ",")[1])
    ELSE host

DefaultLocation ==
    [country |-> "Unknown", city |-> "Unknown", isp |-> "Unknown"]

\* dict.get(k, default)
Get(d, k, default) == IF k \in DOMAIN d THEN d[k] ELSE default

Absent == "<absent>"

\* network_info as built before the geolocation
BuildNetworkInfo(hostname, server_ip, cip, pip) ==
    [server |-> [hostname |-> hostname, ip |-> server_ip,
                 is_private |-> is_private_ip(server_ip)],
     client |-> [ip |-> cip, public_ip |-> pip,
                 is_private |-> is_private_ip(cip),
                 location |-> DefaultLocation]]

\* A geolocation that takes any JSON object for a result.
GeolocateAnyStatus(info, g) ==
    IF g.kind = "json_object"
    THEN [info EXCEPT !.client.location =
             [country |-> Get(g.json, "country", "Unknown"),
              city |-> Get(g.json, "city", "Unknown"),
              isp |-> Get(g.json, "isp", "Unknown"),
              region |-> Get(g.json, "regionName", "Unknown"),
              timezone |-> Get(g.json, "timezone", "Unknown")]]
    ELSE info

\* The try block around the ip-api.com call: an exception of the call, of
\* .json() or of .get on a value that is no dict leaves network_info alone,
\* and so does a status other than 'success'.
Geolocate(info, g) ==
    IF g.kind = "json_object" /\ Get(g.json, "status", Absent) = "success"
    THEN [info EXCEPT !.client.location =
             [country |-> Get(g.json, "country", "Unknown"),
              city |-> Get(g.json, "city", "Unknown"),
              isp |-> Get(g.json, "isp", "Unknown"),
              region |-> Get(g.json, "regionName", "Unknown"),
              timezone |-> Get(g.json, "timezone", "Unknown")]]
    ELSE info

\* socket.gethostname()
Hostname == "speedtest-host"

\* What the except block of get_network_details makes of an exception:
\* it calls gethostname and reads request.client.host again, and an
\* exception of either leaves the function.
ExceptBlock(host, raised) ==
    [failed |-> TRUE, raised |-> raised,
     value |-> IF raised
               THEN EmptyObject
               ELSE [error |-> "Could not fetch network details",
                     server |-> [hostname |-> Hostname],
                     client |-> [ip |-> host]],
     client_ip |-> NoneS, public_ip |-> NoneS]

\* public_ip = client_ip if not is_private_ip(client_ip) else None
PublicIp(cip) == IF ~is_private_ip(cip) THEN cip ELSE NoneS

\* the try block from the resolved client_ip on
TryBlock(server_ip, cip, pip) ==
    [failed |-> FALSE, raised |-> FALSE,
     value |-> BuildNetworkInfo(Hostname, server_ip, cip, pip),
     client_ip |-> cip, public_ip |-> pip]

Resolved(server_ip, cip) == TryBlock(server_ip, cip, PublicIp(cip))

\* get_network_details up to the geolocation, for the request of peer
\* address host and header x, with lookups e. failed: an exception reached
\* the outer except; raised: the except block raised in its turn, and the
\* exception left the function; value: what the function returns when it
\* returns here; the rest are its locals.
get_network_details(host, x, e) ==
    IF e.gethostname1 # "ok" \/ e.gethostbyname # "ok" \/ host = NoneS
    THEN ExceptBlock(host, e.gethostname2 # "ok" \/ host = NoneS)
    ELSE Resolved(e.server_ip, resolve_client_ip(host, HeaderValue(x)))

\* the value of lookups while no handler has run
NoLookups ==
    [gethostname1 |-> "ok", gethostname2 |-> "ok", gethostbyname |-> "ok",
     server_ip |-> Addr_127_0_0_1]

NoGeo == [kind |-> "none", json |-> EmptyObject]

InitNetwork ==
    /\ netPc = "idle"
    /\ route = "none"
    /\ peer = NoneS
    /\ xff = NoHeader
    /\ lookups = NoLookups
    /\ geo = NoGeo
    /\ client_ip = NoneS
    /\ public_ip = NoneS
    /\ built = EmptyObject
    /\ calls = <<>>
    /\ network = EmptyObject
    /\ netStatus = 0
    /\ netBody = EmptyObject

\* what speed_test_info returns around the network details
TestBody(value) ==
    [message |-> "Speed tests are performed client-side for accuracy",
     your_network |-> value,
     to_test_speed |-> [interactive |-> "/", api_download |-> "GET",
                        api_upload |-> "POST"],
     note |-> "client side"]

\* the JSON body the route answers with
RouteBody(rt, value) == IF rt = "test" THEN TestBody(value) ELSE value

\* The server accepts a request for route rt from peer address host with
\* X-Forwarded-For header x.
Request(rt, host, x) ==
    /\ netPc = "idle"
    /\ netPc' = "received"
    /\ route' = rt
    /\ peer' = host
    /\ xff' = x
    /\ UNCHANGED <<lookups, geo, client_ip, public_ip, built, calls, network,
                   netStatus, netBody>>
    /\ UNCHANGED <<dlVars, upVars>>

\* The route awaits get_network_details(request). The function runs up to
\* the call of ip-api.com, or to its return when it makes no call: it makes
\* none when an exception was caught or public_ip is None or empty. An
\* exception that leaves it is answered 500 by the framework.
Handle(rt, e) ==
    /\ netPc = "received"
    /\ route = rt
    /\ lookups' = e
    /\ \E d \in {get_network_details(peer, xff, e)} :
        /\ client_ip' = d.client_ip
        /\ public_ip' = d.public_ip
        /\ IF ~d.failed /\ Truthy(d.public_ip)
           THEN /\ netPc' = "geolocating"
                /\ built' = d.value
                /\ calls' = <<[service |-> "ip-api.com", ip |-> d.public_ip]>>
                /\ UNCHANGED <<network, netStatus, netBody>>
           ELSE /\ netPc' = "responded"
                /\ built' = IF d.failed THEN EmptyObject ELSE d.value
                /\ calls' = <<>>
                /\ network' = d.value
                /\ netStatus' = IF d.raised THEN 500 ELSE 200
                /\ netBody' = IF d.raised THEN EmptyObject
                                          ELSE RouteBody(rt, d.value)
    /\ UNCHANGED <<route, peer, xff, geo>>
    /\ UNCHANGED <<dlVars, upVars>>

\* GET /api/speedtest/network
network_info(e) == Handle("network", e)

\* GET /api/speedtest/test
speed_test_info(e) == Handle("test", e)

\* The call of ip-api.com ends with outcome g; get_network_details returns
\* and the route answers.
GeolocationReturns(g) ==
    /\ netPc = "geolocating"
    /\ netPc' = "responded"
    /\ geo' = g
    /\ network' = Geolocate(built, g)
    /\ netStatus' = 200
    /\ netBody' = RouteBody(route, Geolocate(built, g))
    /\ UNCHANGED <<route, peer, xff, lookups, client_ip, public_ip, built,
                   calls>>
    /\ UNCHANGED <<dlVars, upVars>>

\* The response is sent and the request's values are gone.
ResponseSent ==
    /\ netPc = "responded"
    /\ netPc' = "idle"
    /\ route' = "none"
    /\ peer' = NoneS
    /\ xff' = NoHeader
    /\ lookups' = NoLookups
    /\ geo' = NoGeo
    /\ client_ip' = NoneS
    /\ public_ip' = NoneS
    /\ built' = EmptyObject
    /\ calls' = <<>>
    /\ network' = EmptyObject
    /\ netStatus' = 0
    /\ netBody' = EmptyObject
    /\ UNCHANGED <<dlVars, upVars>>

NextNetwork ==
    \/ \E rt \in {"network", "test"}, host \in PeerHosts, x \in XffHeaders :
           Request(rt, host, x)
    \/ \E e \in Lookups : network_info(e)
    \/ \E e \in Lookups : speed_test_info(e)
    \/ \E g \in GeoOutcomes : GeolocationReturns(g)
    \/ ResponseSent

Init == InitDownload /\ InitUpload /\ InitNetwork

SpecDownload == Init /\ [][NextDownload]_vars

SpecUpload == Init /\ [][NextUpload]_vars

SpecNetwork == Init /\ [][NextNetwork]_vars

(***************************************************************************)
(* Properties of the download stream                                       *)
(***************************************************************************)
\* C1: for a request with size_mb >= 0 every chunk handed over is non-empty
\* and at most 256 KiB, every chunk but the last is exactly 256 KiB, the
\* chunks never sum to more than size_mb * 1024 * 1024 bytes (so the
\* sequence is finite), and they sum to exactly that once the generator is
\* exhausted.
C1_ChunkSequence ==
    \A r \in Requests :
        size_mb[r] >= 0 =>
            /\ \A i \in 1..Len(body[r]) :
                   body[r][i] >= 1 /\ body[r][i] <= 256 * 1024
            /\ \A i \in 1..(Len(body[r]) - 1) : body[r][i] = 256 * 1024
            /\ dlPc[r] = "yielding" => chunk[r] >= 1 /\ chunk[r] <= 256 * 1024
            /\ SumSeq(body[r]) <= size_mb[r] * 1024 * 1024
            /\ dlPc[r] = "done" => SumSeq(body[r]) = size_mb[r] * 1024 * 1024

C1_Witness ==
    \E r \in Requests :
        /\ dlPc[r] = "done"
        /\ size_mb[r] = MaxSizeMb
        /\ Len(body[r]) = 4 * MaxSizeMb

\* C2: for every integer size_mb, negative ones included, the Content-Length
\* declared in the response headers equals the number of body bytes emitted
\* once the stream is fully consumed.
C2_ContentLengthIsBodyLength ==
    \A r \in Requests :
        dlPc[r] = "done" => content_length[r] = SumSeq(body[r])

\* C10: the generator is lazy and private to its request. In every state
\* the bytes generated for a request exceed the bytes handed to its
\* consumer by at most one chunk; bytes_sent of a request moves only while
\* a pull of that request's consumer is outstanding; after the client has
\* disconnected no new pull is made, so a consumer that stopped after k
\* chunks sees no further chunk generated; and no step changes the generator
\* state of two requests.
GeneratorState(r) == <<bytes_sent[r], chunk[r], dlPc[r]>>

C10_LazyStep ==
    /\ \A r \in Requests :
        /\ bytes_sent'[r] # bytes_sent[r] => dlPc[r] = "running"
        /\ disconnected[r] /\ dlPc[r] # "running" => dlPc'[r] # "running"
        /\ disconnected[r] /\ dlPc[r] \in {"suspended", "closed"} =>
               bytes_sent'[r] = bytes_sent[r] /\ body'[r] = body[r]
    /\ \A r1, r2 \in Requests :
        (r1 # r2 /\ GeneratorState(r1)' # GeneratorState(r1)) =>
            GeneratorState(r2)' = GeneratorState(r2)

C10_LazyGenerator ==
    /\ [](\A r \in Requests :
            /\ bytes_sent[r] - SumSeq(body[r]) <= 256 * 1024
            /\ bytes_sent[r] - SumSeq(body[r]) >= 0)
    /\ [][C10_LazyStep]_vars

C10_Witness ==
    \E r1, r2 \in Requests :
        /\ r1 # r2
        /\ disconnected[r1] /\ dlPc[r1] = "closed"
        /\ Len(body[r1]) >= 1
        /\ bytes_sent[r1] < size_mb[r1] * 1024 * 1024
        /\ dlPc[r2] = "yielding" /\ Len(body[r2]) >= 1

(***************************************************************************)
(* Properties of the upload receiver and of the page that calls it         *)
(***************************************************************************)
\* C6: an upload of N >= 0 bytes is read to exhaustion with reads that ask
\* for at most 256 KiB, stops at the first empty read and is answered with
\* size_bytes = N; a request with an empty or a missing body is answered
\* with size_bytes = 0 and not with an error.
C6_UploadCounted ==
    /\ upAsked <= 256 * 1024
    /\ upEmptyReads <= 1
    /\ upPc = "reading" => upEmptyReads = 0
    /\ (upPc = "responded" /\ upBytes # Missing) =>
           /\ upStatus = 200
           /\ upEmptyReads = 1
           /\ upRemaining = 0
           /\ upResult["size_bytes"] = upBytes
    /\ (upPc = "responded" /\ upBytes \in {0, Missing}) =>
           /\ upStatus = 200
           /\ "size_bytes" \in DOMAIN upResult
           /\ upResult["size_bytes"] = 0

\* C8: the upload response carries exactly size_bytes, size_mb,
\* server_timestamp and note, and every field the bundled page reads from
\* it is a field of the response, so the page never shows a missing value.
C8_PageReadsWhatUploadReturns ==
    /\ (upPc = "responded" /\ upStatus = 200) =>
           /\ DOMAIN upResult =
                  {"size_bytes", "size_mb", "server_timestamp", "note"}
           /\ PageUploadReads \subseteq DOMAIN upResult
    /\ pageUpload # "undefined Mbps"

(***************************************************************************)
(* Properties of get_network_details                                       *)
(***************************************************************************)
\* the handler got past the lookups and the peer address: client_ip is
\* resolved and network_info is built
Resolving == netPc \in {"geolocating", "responded"} /\ built # EmptyObject

\* C3, as stated: without an X-Forwarded-For header the resolved client IP
\* is the peer address, and with the header it is the header's first
\* comma-separated token, trimmed, whatever the peer and the later tokens.
C3_FirstTokenWhenPresent ==
    Resolving =>
        /\ built["client"]["ip"] = client_ip
        /\ client_ip = IF xff.present THEN xff.tok ELSE peer

\* C3, amended: without the header, or with a header whose value is empty,
\* the resolved client IP is the peer address; with a header of non-empty
\* value it is the header's first comma-separated token, trimmed, whatever
\* the peer and the later tokens.
C3_FirstTokenWhenNotEmpty ==
    Resolving =>
        /\ built["client"]["ip"] = client_ip
        /\ client_ip =
               IF xff.present /\ xff.lead \o xff.tok \o xff.trail \o xff.tail # <<>>
               THEN xff.tok
               ELSE peer

C3_Witness ==
    /\ netPc = "responded"
    /\ netStatus = 200
    /\ peer = Addr_10_0_0_1
    /\ xff.present /\ xff.lead # <<>> /\ xff.trail # <<>> /\ xff.tail # <<>>
    /\ xff.tok = Addr_203_0_113_5
    /\ network["client"]["ip"] = Addr_203_0_113_5

\* the ip-api.com call returned a JSON object whose status is "success"
GeoSuccess ==
    /\ geo.kind = "json_object"
    /\ "status" \in DOMAIN geo.json
    /\ geo.json["status"] = "success"

\* C4: the location returned differs from the default only when the
\* geolocation call was made and returned status "success"; after every
\* other outcome of the call the handler returns network_info exactly as it
\* was built, default location included, with status 200 and no error; and
\* after any outcome the server and the client ip, public_ip and is_private
\* are as built.
C4_LocationOnlyOnSuccess ==
    /\ (netPc = "responded" /\ calls # <<>>) => netStatus = 200
    /\ (netPc = "responded" /\ built # EmptyObject) =>
        /\ "error" \notin DOMAIN network
        /\ network["client"]["location"] # DefaultLocation =>
               calls # <<>> /\ GeoSuccess
        /\ ~(calls # <<>> /\ GeoSuccess) =>
               /\ network = built
               /\ network["client"]["location"] = DefaultLocation
        /\ network["server"] = built["server"]
        /\ network["client"]["ip"] = built["client"]["ip"]
        /\ network["client"]["public_ip"] = built["client"]["public_ip"]
        /\ network["client"]["is_private"] = built["client"]["is_private"]

C4_Witness ==
    /\ netPc = "responded"
    /\ calls # <<>>
    /\ geo.kind = "json_object"
    /\ "status" \in DOMAIN geo.json /\ geo.json["status"] = "fail"
    /\ network["client"]["location"] = DefaultLocation

\* C5: when the resolved client IP is private the handler first asks an
\* echo-my-IP service for the public address; public_ip is null only when
\* that lookup failed, and an address it returned is geolocated.
C5_EchoLookupWhenPrivate ==
    (netPc = "responded" /\ built # EmptyObject
        /\ built["client"]["is_private"]) =>
        /\ calls # <<>>
        /\ calls[1].service = "echo-ip"

\* addresses of the model in a private or reserved range: RFC 1918,
\* loopback, link-local, the documentation range 203.0.113.0/24
PrivateAddresses ==
    {Addr_10_0_0_1, Addr_192_168_1_20, Addr_127_0_0_1, Addr_fe80__1,
     Addr_203_0_113_5}

\* globally routable addresses of the model, and 100.64.0.1 of the shared
\* address space, which is_private of the standard library leaves out
PublicAddresses == {Addr_8_8_8_8, Addr_2001_4860__8888, Addr_100_64_0_1}

\* strings of the model that are no IPv4 or IPv6 literal
Unparsable == {Addr_256_1_1_1, Str_unknown, Str_testclient, Str_empty}

C9_AlwaysNetworkInfo ==
    (netPc = "responded" /\ route = "network") =>
        /\ netStatus = 200
        /\ "error" \notin DOMAIN netBody
        /\ "client" \in DOMAIN netBody
        /\ "location" \in DOMAIN netBody["client"]
        /\ {"country", "city", "isp"} \subseteq
               DOMAIN netBody["client"]["location"]

====
